---- MODULE Spec2Model ----
(***************************************************************************)
(* MangoClub inventory ledger (src/Streamlit/MangoERPstream.py, and the    *)
(* desktop variant src/unnamed/part_000).                                  *)
(*                                                                         *)
(* Weights are Python floats in pounds.  The model is fixed-point: every   *)
(* weight, pool and flow is an integer number of TENTHS of a pound, so     *)
(* 20.0 lbs is 200 and the 0.1 lbs tolerance of the balance check is 1.    *)
(* Quantities are integers.  The "timestamp" field of a history entry      *)
(* (datetime.now()) is an environment reading that no operation of the     *)
(* ledger ever reads back; it is left out of the entry.  Python dicts      *)
(* whose iteration order is observable by the ledger (the flow buckets)    *)
(* are sequences of <<key, value>> records in insertion order; the others  *)
(* (products, known_units, contacts) are functions.                        *)
(***************************************************************************)
EXTENDS Integers, Sequences, FiniteSets, TLC

VARIABLES
    products,   \* self.data["products"]: name -> [category, icon, pool, known_units]
    history,    \* self.data["history"]: newest first
    contacts,   \* self.data["contacts"]: name -> [type]
    file,       \* content of DB_FILE: the lines that are on the disk
    result,     \* what the last call returned (or raised)
    writer,     \* the file object of a save_db that has not returned yet
    peer        \* a second process of the program on the same DB_FILE

vars == <<products, history, contacts, file, result, writer, peer>>

data == [products |-> products, history |-> history, contacts |-> contacts]

----------------------------------------------------------------------------
(* Bounds and input samples *)

MaxHistory == 2

ProductNames == {"Heirloom Tomato", "Tomato"}
Categories == {"Fruit", "Vegetable", "Dairy", "Meat", "Grain"}
ContactNames == {"Farm Supply Co", "VendorA"}
ContactTypes == {"Vendor", "Customer"}
\* The ledger specification adds products of one category and contacts of one
\* role; the store specification (SpecStore) draws them all.
LedgerCategories == {"Fruit"}
LedgerContactTypes == {"Vendor"}
UnitNames == {"Standard Crate", "Red Bucket"}
QtyInputs == {-1, 2}
WeightInputs == {0, 100, 200}
ActionInputs == {"IN", "OUT"}
ContactInputs == {"Unspecified", "Farm Supply Co"}

\* What a text entry of the desktop form can hold.
TextInputs(numbers) ==
    {[kind |-> "empty", val |-> 0], [kind |-> "word", val |-> 0]}
        \cup {[kind |-> "number", val |-> n] : n \in numbers}

----------------------------------------------------------------------------
(* A Database method is a function of self.data (d) and its arguments.  It  *)
(* yields the data it leaves in memory, whether it reached save_db, and     *)
(* what it returned: ret.ok and ret.msg are the (bool, message) pair, and   *)
(* ret.raised says that msg names an exception that left the method.        *)

Returned(ok, msg) == [ok |-> ok, raised |-> FALSE, msg |-> msg]
Raised(exception) == [ok |-> FALSE, raised |-> TRUE, msg |-> exception]

(* Database.save_db / load_db: json.dump(self.data, f, indent=4) and        *)
(* json.load(f).  The document is the sequence of its lines, one for each   *)
(* product, known unit, history entry and contact between the two braces.   *)
(* The items of a dict are written in DumpOrder, which stands for the       *)
(* dict's insertion order (no operation of the ledger depends on it).       *)

DumpOrder ==
    <<"Heirloom Tomato", "Tomato", "Standard Crate", "Small Box", "Red Bucket",
      "Farm Supply Co", "Local Market", "VendorA">>

ItemsOf(dict) == SelectSeq(DumpOrder, LAMBDA k : k \in DOMAIN dict)

ProductLines(name, product) ==
    LET units == ItemsOf(product.known_units)
    IN  <<[line |-> "product", name |-> name, category |-> product.category,
           icon |-> product.icon, pool |-> product.pool]>>
        \o [i \in 1..Len(units) |->
               [line |-> "unit", product |-> name, name |-> units[i],
                weight |-> product.known_units[units[i]]]]

RECURSIVE Concat(_)
Concat(seqs) == IF seqs = <<>> THEN <<>> ELSE Head(seqs) \o Concat(Tail(seqs))

Dump(d) ==
    LET names == ItemsOf(d.products)
        people == ItemsOf(d.contacts)
    IN  <<[line |-> "{"]>>
        \o Concat([i \in 1..Len(names) |-> ProductLines(names[i], d.products[names[i]])])
        \o [i \in 1..Len(d.history) |-> [line |-> "log", entry |-> d.history[i]]]
        \o [i \in 1..Len(people) |->
               [line |-> "contact", name |-> people[i], type |-> d.contacts[people[i]].type]]
        \o <<[line |-> "}"]>>

LinesOf(lines, kind) == SelectSeq(lines, LAMBDA l : l.line = kind)

\* What the lines say, read as one document.
Parse(lines) ==
    LET prods == LinesOf(lines, "product")
        units == LinesOf(lines, "unit")
        logs == LinesOf(lines, "log")
        people == LinesOf(lines, "contact")
        UnitsOf(n) == SelectSeq(units, LAMBDA l : l.product = n)
    IN  [products |->
             [n \in {prods[i].name : i \in 1..Len(prods)} |->
                 LET l == prods[CHOOSE i \in 1..Len(prods) : prods[i].name = n]
                     us == UnitsOf(n)
                 IN  [category |-> l.category, icon |-> l.icon, pool |-> l.pool,
                      known_units |->
                          [u \in {us[i].name : i \in 1..Len(us)} |->
                              us[CHOOSE i \in 1..Len(us) : us[i].name = u].weight]]],
         history |-> [i \in 1..Len(logs) |-> logs[i].entry],
         contacts |->
             [c \in {people[i].name : i \in 1..Len(people)} |->
                 [type |-> people[CHOOSE i \in 1..Len(people) : people[i].name = c].type]]]

\* json.load accepts the lines: they are one whole document and nothing else.
WellFormed(lines) == Dump(Parse(lines)) = lines

save_db(d) == Dump(d)

\* load_db when DB_FILE exists: the data it leaves in self.data, or the
\* exception of json.load (self.data is then the {} of __init__).
load_db(lines) ==
    IF WellFormed(lines)
    THEN [data |-> Parse(lines), ret |-> Returned(TRUE, "")]
    ELSE [data |-> <<>>, ret |-> Raised("JSONDecodeError")]

\* No save_db is under way; no second process runs.
Closed == [open |-> FALSE]
NoPeer == [up |-> FALSE]

(* Database.add_product *)

\* Fault: the chain stops after Vegetable.
IconForShort(category) ==
    IF category = "Fruit" THEN "apple"
    ELSE IF category = "Vegetable" THEN "broccoli"
    ELSE "box"

\* The icons are emoji in the source; here each is the name of what it shows.
IconFor(category) ==
    IF category = "Fruit" THEN "apple"
    ELSE IF category = "Vegetable" THEN "broccoli"
    ELSE IF category = "Dairy" THEN "milk"
    ELSE IF category = "Meat" THEN "steak"
    ELSE "box"

StandardCrateWeight == 200
SmallBoxWeight == 100

DefaultUnits ==
    ("Standard Crate" :> StandardCrateWeight) @@ ("Small Box" :> SmallBoxWeight)

NewProduct(category) ==
    [category |-> category, icon |-> IconFor(category), pool |-> 0,
     known_units |-> DefaultUnits]

\* Fault: the name is not looked up.
ProductExistsNever(name, prods) == FALSE

ProductExists(name, prods) == name \in DOMAIN prods

add_product(d, name, category) ==
    IF ProductExists(name, d.products)
    THEN [data |-> d, saved |-> FALSE, ret |-> Returned(FALSE, "Product already exists!")]
    ELSE [data |-> [d EXCEPT !.products = (name :> NewProduct(category)) @@ @],
          saved |-> TRUE, ret |-> Returned(TRUE, "Success")]

(* Database.add_contact *)

add_contact(d, name, type) ==
    IF name \in DOMAIN d.contacts
    THEN [data |-> d, saved |-> FALSE, ret |-> Returned(FALSE, "Contact already exists!")]
    ELSE [data |-> [d EXCEPT !.contacts = (name :> [type |-> type]) @@ @],
          saved |-> TRUE, ret |-> Returned(TRUE, "Contact Added")]

(* Database.update_pool *)

TotalLbs(qty, unit_weight) == qty * unit_weight

\* Fault: a sale of the whole stock is refused too.
NotEnoughStockStrict(pool, total_lbs) == pool <= total_lbs

NotEnoughStock(pool, total_lbs) == pool < total_lbs

\* f"Not enough stock! (Need {total_lbs} lbs)": the text and the number in it
NotEnoughStockMessage(total_lbs) == [text |-> "Not enough stock!", need |-> total_lbs]

\* Fault: a sale is added to the pool.
PoolAfterAdds(pool, total_lbs, action) ==
    IF action = "IN" \/ action = "OUT" THEN pool + total_lbs ELSE pool

PoolAfter(pool, total_lbs, action) ==
    IF action = "IN" THEN pool + total_lbs
    ELSE IF action = "OUT" THEN pool - total_lbs
    ELSE pool

\* Fault: a known unit keeps its first weight.
LearnUnitFirstWins(known_units, unit_name, unit_weight) ==
    known_units @@ (unit_name :> unit_weight)

LearnUnit(known_units, unit_name, unit_weight) ==
    (unit_name :> unit_weight) @@ known_units

\* Fault: the entry records the change with the sign of its direction.
HistoryEntrySigned(product_name, qty, unit_name, total_lbs, action, pool, contact_name) ==
    [product |-> product_name, action |-> action,
     qty_display |-> <<qty, unit_name>>,
     weight_change |-> IF action = "OUT" THEN 0 - total_lbs ELSE total_lbs,
     pool_after |-> pool,
     contact |-> contact_name]

HistoryEntry(product_name, qty, unit_name, total_lbs, action, pool, contact_name) ==
    [product |-> product_name, action |-> action,
     qty_display |-> <<qty, unit_name>>,
     weight_change |-> total_lbs, pool_after |-> pool,
     contact |-> contact_name]

\* Fault: the entry goes to the end of the list.
LogHistoryLast(log, entry) == Append(log, entry)

LogHistory(log, entry) == <<entry>> \o log

update_pool(d, product_name, qty, unit_name, unit_weight, action, contact_name) ==
    IF product_name \notin DOMAIN d.products
    THEN \* self.data["products"][product_name]
         [data |-> d, saved |-> FALSE, ret |-> Raised("KeyError")]
    ELSE LET product == d.products[product_name]
             total_lbs == TotalLbs(qty, unit_weight)
         IN  IF action = "OUT" /\ NotEnoughStock(product.pool, total_lbs)
             THEN [data |-> d, saved |-> FALSE,
                   ret |-> Returned(FALSE, NotEnoughStockMessage(total_lbs))]
             ELSE LET pool == PoolAfter(product.pool, total_lbs, action)
                      updated == [product EXCEPT
                                     !.pool = pool,
                                     !.known_units = LearnUnit(@, unit_name, unit_weight)]
                      entry == HistoryEntry(product_name, qty, unit_name, total_lbs,
                                            action, pool, contact_name)
                  IN  [data |-> [d EXCEPT !.products[product_name] = updated,
                                          !.history = LogHistory(@, entry)],
                       saved |-> TRUE, ret |-> Returned(TRUE, "Success!")]

\* The call as a step of the program.
Call(op, r) ==
    /\ products' = r.data.products
    /\ history' = r.data.history
    /\ contacts' = r.data.contacts
    /\ file' = IF r.saved THEN save_db(r.data) ELSE file
    /\ result' = [op |-> op] @@ r.ret
    /\ UNCHANGED <<writer, peer>>

\* A transaction, as long as the log has room for its entry.
Transaction(r) ==
    /\ Len(r.data.history) <= MaxHistory
    /\ Call("update_pool", r)

----------------------------------------------------------------------------
(* render_product.render_transaction_form: the web form's button handler.  *)
(* It is drawn for the selected product, which exists.  When the form is    *)
(* refused (st.error / st.warning and return) no Database call is made and  *)
(* nothing changes: the early returns are the guard of the action.          *)

CreateNewUnit == "+ Create New Unit..."

ContactOptions(action) ==
    {"Unspecified"} \cup
        {c \in DOMAIN contacts :
            contacts[c].type = (IF action = "IN" THEN "Vendor" ELSE "Customer")}

render_transaction_form(p_name, action, selected_contact, qty, unit_selection, new_u_name, new_u_weight) ==
    LET p_data == products[p_name]
        create == unit_selection = CreateNewUnit
        final_unit_name == IF create THEN new_u_name ELSE unit_selection
        final_weight == IF create THEN new_u_weight
                        ELSE p_data.known_units[unit_selection]
    IN  \* "Please fill out New Unit Name and Weight!"
        /\ ~(create /\ (new_u_name = "" \/ new_u_weight <= 0))
        \* "Quantity must be greater than 0"
        /\ qty > 0
        /\ Transaction(update_pool(data, p_name, qty, final_unit_name, final_weight,
                                   action, selected_contact))

(* MangoApp.show_transaction.submit: the desktop form's button handler.    *)
(* The desktop Database.update_pool is the web one without the contact      *)
(* argument; its entries carry no "contact" key, which every reader takes   *)
(* as "Unspecified" (log.get("contact", "Unspecified")), and its refusal    *)
(* is f"Not enough stock! (Need {total_lbs} lbs, Have {pool:.1f} lbs)".     *)
(* A text entry is [kind, val]: empty, a word that float() refuses, or a    *)
(* number.                                                                  *)

desktop_update_pool(d, product_name, qty, unit_name, unit_weight, action) ==
    LET r == update_pool(d, product_name, qty, unit_name, unit_weight, action,
                         "Unspecified")
    IN  IF ~r.ret.ok /\ ~r.ret.raised
        THEN [r EXCEPT !.ret.msg = @ @@ [have |-> d.products[product_name].pool]]
        ELSE r

submit(product_name, action, qty, selection, new_name, w_str) ==
    LET p_data == products[product_name]
        create == selection = CreateNewUnit
        unit_name_final == IF create THEN new_name ELSE selection
        weight == IF create THEN w_str.val ELSE p_data.known_units[selection]
    IN  /\ qty.kind # "empty"                                      \* "Enter Quantity"
        /\ ~(create /\ (new_name = "" \/ w_str.kind = "empty"))     \* "Fill details"
        /\ ~(create /\ w_str.kind = "word")                  \* "Weight must be number"
        /\ IF qty.kind = "word"
           THEN \* update_pool: float(qty) raises ValueError before any assignment
                Call("update_pool",
                     [data |-> data, saved |-> FALSE, ret |-> Raised("ValueError")])
           ELSE Transaction(desktop_update_pool(data, product_name, qty.val,
                                                unit_name_final, weight, action))

----------------------------------------------------------------------------
(* render_supply_chain_sankey.  A bucket dict (in_flows, out_flows) is the  *)
(* sequence of its [key, amount] items in insertion order.                  *)

Logs(product_name, hist) == SelectSeq(hist, LAMBDA x : x.product = product_name)

\* log.get("contact", "Unspecified")
LogContact(log) == IF "contact" \in DOMAIN log THEN log.contact ELSE "Unspecified"

HasKey(flows, k) == \E i \in 1..Len(flows) : flows[i].key = k

\* flows.get(k, 0.0)
GetFlow(flows, k) ==
    IF HasKey(flows, k)
    THEN flows[CHOOSE i \in 1..Len(flows) : flows[i].key = k].amount
    ELSE 0

\* Fault: a new key goes first.
SetFlowFirst(flows, k, v) ==
    IF HasKey(flows, k)
    THEN [i \in 1..Len(flows) |->
             IF flows[i].key = k THEN [key |-> k, amount |-> v] ELSE flows[i]]
    ELSE <<[key |-> k, amount |-> v]>> \o flows

\* flows[k] = v: a known key keeps its place, a new key goes last
SetFlow(flows, k, v) ==
    IF HasKey(flows, k)
    THEN [i \in 1..Len(flows) |->
             IF flows[i].key = k THEN [key |-> k, amount |-> v] ELSE flows[i]]
    ELSE Append(flows, [key |-> k, amount |-> v])

\* flows[k] = flows.get(k, 0.0) + weight
AddFlow(flows, k, weight) == SetFlow(flows, k, GetFlow(flows, k) + weight)

\* the aggregation loop, over the logs in list order (newest first)
RECURSIVE Flows(_, _)
Flows(logs, action) ==
    IF logs = <<>> THEN <<>>
    ELSE LET log == logs[Len(logs)]
             before == Flows(SubSeq(logs, 1, Len(logs) - 1), action)
         IN  IF log.action = action
             THEN AddFlow(before, LogContact(log), log.weight_change)
             ELSE before

RECURSIVE Total(_, _)
Total(logs, action) ==
    IF logs = <<>> THEN 0
    ELSE Total(Tail(logs), action)
            + (IF Head(logs).action = action THEN Head(logs).weight_change ELSE 0)

\* Fault: the stock is left out of what was used.
BalanceGapNoStock(total_in, total_out, current_stock) == total_out - total_in

BalanceGap(total_in, total_out, current_stock) ==
    (total_out + current_stock) - total_in

GapTolerance == 1

\* Fault: any positive gap is injected.
GapPositive(balance_gap) == balance_gap > 0

GapExceedsTolerance(balance_gap) == balance_gap > GapTolerance

InFlows(logs, current_stock) ==
    LET in_flows == Flows(logs, "IN")
        balance_gap == BalanceGap(Total(logs, "IN"), Total(logs, "OUT"), current_stock)
    IN  IF GapExceedsTolerance(balance_gap)
        THEN AddFlow(in_flows, "Initial / Unknown", balance_gap)
        ELSE in_flows

OutFlows(logs) == Flows(logs, "OUT")

Keys(flows) == [i \in 1..Len(flows) |-> flows[i].key]
Amounts(flows) == [i \in 1..Len(flows) |-> flows[i].amount]
Repeat(x, n) == [i \in 1..n |-> x]

\* Fault: the link to the stock node is always drawn.
StockLinkAlways(current_stock) == TRUE

\* if current_stock > 0: the link from the farm to the stock node
StockLink(current_stock) == current_stock > 0

\* The figure handed to plotly.  Node indices are Python's, from 0.  The last
\* label is "Current Stock (<current_stock> lbs)": stock_label is that number.
SankeyFigure(product_name, product_data, logs) ==
    LET current_stock == product_data.pool
        in_flows == InFlows(logs, current_stock)
        out_flows == OutFlows(logs)
        n_in == Len(in_flows)
        n_out == Len(out_flows)
        farm_idx == n_in
        stock_idx == n_in + 1 + n_out
        to_stock == StockLink(current_stock)
    IN  [title |-> product_name,
         label |-> Keys(in_flows) \o <<"MangoClub Farm">> \o Keys(out_flows)
                       \o <<"Current Stock">>,
         stock_label |-> current_stock,
         source |-> [i \in 1..n_in |-> i - 1] \o Repeat(farm_idx, n_out)
                        \o (IF to_stock THEN <<farm_idx>> ELSE <<>>),
         target |-> Repeat(farm_idx, n_in) \o [i \in 1..n_out |-> farm_idx + i]
                        \o (IF to_stock THEN <<stock_idx>> ELSE <<>>),
         value |-> Amounts(in_flows) \o Amounts(out_flows)
                       \o (IF to_stock THEN <<current_stock>> ELSE <<>>)]

render_supply_chain_sankey(product_name) ==
    LET logs == Logs(product_name, history)
    IN  /\ result' =
               IF logs = <<>>
               THEN [op |-> "render_supply_chain_sankey", product |-> product_name]
                        @@ Returned(TRUE, "Not enough data to visualize supply chain.")
               ELSE [op |-> "render_supply_chain_sankey",
                     fig |-> SankeyFigure(product_name, products[product_name], logs)]
                        @@ Returned(TRUE, "plotly_chart")
        /\ UNCHANGED <<products, history, contacts, file, writer, peer>>

----------------------------------------------------------------------------
(* Database.__init__ / load_db with no DB_FILE: the demo data *)

Init ==
    /\ products = ("Heirloom Tomato" :> NewProduct("Vegetable"))
    /\ history = <<>>
    /\ contacts = ("Farm Supply Co" :> [type |-> "Vendor"])
                      @@ ("Local Market" :> [type |-> "Customer"])
    /\ file = save_db(data)
    /\ result = [op |-> "load_db"] @@ Returned(TRUE, "")
    /\ writer = Closed
    /\ peer = NoPeer

AddProduct == \E name \in ProductNames, category \in LedgerCategories :
    Call("add_product", add_product(data, name, category))

AddContact == \E name \in ContactNames, type \in LedgerContactTypes :
    Call("add_contact", add_contact(data, name, type))

\* A call with the default contact_name; the web form passes the others.
UpdatePool ==
    \E product_name \in ProductNames, qty \in QtyInputs, unit_name \in UnitNames,
       unit_weight \in WeightInputs, action \in ActionInputs :
        Transaction(update_pool(data, product_name, qty, unit_name, unit_weight,
                                action, "Unspecified"))

\* The units the forms' drop-down offers, and what the new-unit fields hold
\* (they are read only when "+ Create New Unit..." is selected).
UnitChoices(p) ==
    {[selection |-> u, name |-> "", weight |-> [kind |-> "empty", val |-> 0]] :
        u \in DOMAIN products[p].known_units \cap UnitNames}
    \cup {[selection |-> CreateNewUnit, name |-> n, weight |-> w] :
            n \in {"", "Red Bucket"}, w \in TextInputs({0, 100})}

WebSubmit ==
    \E p_name \in DOMAIN products, action \in {"IN", "OUT"},
       qty \in {0} \cup {q \in QtyInputs : q >= 0} :
        \E selected_contact \in ContactOptions(action) \cap ContactInputs,
           u \in {c \in UnitChoices(p_name) :
                     c.weight.kind # "word" /\ c.weight.val >= 0} :
            render_transaction_form(p_name, action, selected_contact, qty,
                                    u.selection, u.name, u.weight.val)

DesktopSubmit ==
    \E product_name \in DOMAIN products, action \in {"IN", "OUT"},
       qty \in TextInputs(QtyInputs) :
        \E u \in UnitChoices(product_name) :
            submit(product_name, action, qty, u.selection, u.name, u.weight)

Next == AddProduct \/ AddContact \/ UpdatePool \/ WebSubmit \/ DesktopSubmit

Spec == Init /\ [][Next]_vars

----------------------------------------------------------------------------
(* The store: products of every category, contacts of both roles, and the   *)
(* deliveries that follow.                                                  *)

CreateProduct == \E name \in ProductNames, category \in Categories :
    Call("add_product", add_product(data, name, category))

SaveContact == \E name \in ContactNames, type \in ContactTypes :
    Call("add_contact", add_contact(data, name, type))

Harvest ==
    \E product_name \in ProductNames, qty \in QtyInputs, unit_name \in UnitNames,
       unit_weight \in {w \in WeightInputs : w > 0} :
        Transaction(update_pool(data, product_name, qty, unit_name, unit_weight,
                                "IN", "Unspecified"))

NextStore == CreateProduct \/ SaveContact \/ Harvest

SpecStore == Init /\ [][NextStore]_vars

----------------------------------------------------------------------------
(* load_db with a DB_FILE: whatever snapshot the file holds, here one       *)
(* written before contacts existed (the migration branch), and the product  *)
(* page drawing the supply chain of it.                                     *)

MaxLoadedLogs == 3
LoadedPools == {-100, 0, 1, 2, 500}
LoadedWeights == {100, 300}
LoadedContacts == {"VendorA", "CustomerB", "Initial / Unknown"}

LoadedLog(product_name, action, weight) ==
    [product |-> product_name, action |-> action,
     qty_display |-> <<1, "Standard Crate">>,
     weight_change |-> weight, pool_after |-> 0]

LoadedLogs ==
    {LoadedLog("Tomato", a, 100) : a \in {"IN", "OUT"}}
    \cup {LoadedLog("Tomato", a, w) @@ [contact |-> c] :
            a \in {"IN", "OUT"}, w \in LoadedWeights, c \in LoadedContacts}
    \cup {LoadedLog("Tomato", "ADJUST", 100) @@ [contact |-> "VendorA"],
          LoadedLog("Heirloom Tomato", "IN", 100) @@ [contact |-> "VendorA"]}

SeqsUpTo(S, n) == UNION {[1..k -> S] : k \in 0..n}

InitLoaded ==
    /\ \E pool \in LoadedPools :
         products = ("Heirloom Tomato" :> NewProduct("Vegetable"))
                       @@ ("Tomato" :> [NewProduct("Vegetable") EXCEPT !.pool = pool])
    /\ history \in SeqsUpTo(LoadedLogs, MaxLoadedLogs)
    /\ contacts = <<>>
    /\ file = save_db(data)
    /\ result = [op |-> "load_db"] @@ Returned(TRUE, "")
    /\ writer = Closed
    /\ peer = NoPeer

SupplyChainTab == \E product_name \in DOMAIN products :
    render_supply_chain_sankey(product_name)

NextLoaded == SupplyChainTab

SpecLoaded == InitLoaded /\ [][NextLoaded]_vars

----------------------------------------------------------------------------
(* save_db step by step.  open(DB_FILE, "w") truncates the file or raises   *)
(* OSError; json.dump hands the lines to the file object, which writes      *)
(* them at its own offset a block at a time (when its buffer is full, and   *)
(* the rest when the with-block closes it), and a write may raise OSError;  *)
(* save_db returns after the close.  A process is [data, ret, fh]: its      *)
(* self.data, what its last call returned and its open file object.         *)

Hole == [line |-> "NUL"]

\* write(2) of block at offset pos: it replaces what is there and extends
\* the file, over a gap of NULs when the file ends before pos
WriteAt(lines, pos, block) ==
    LET end == pos + Len(block)
        n == IF Len(lines) > end THEN Len(lines) ELSE end
    IN  [i \in 1..n |->
            IF i > pos /\ i <= end THEN block[i - pos]
            ELSE IF i <= Len(lines) THEN lines[i]
            ELSE Hole]

Process(d, ret, fh) == [up |-> TRUE, data |-> d, ret |-> ret, fh |-> fh]

\* update_pool up to and including the open() of save_db.  r is what
\* update_pool computes from the arguments; opened says that open() succeeded.
UpdatePoolOpens(q, lines, r, opened) ==
    LET ret == [op |-> "update_pool"] @@ r.ret
    IN  IF ~r.saved
        THEN [proc |-> Process(r.data, ret, Closed), file |-> lines]
        ELSE IF opened
        THEN [proc |-> Process(r.data, q.ret,
                               [open |-> TRUE, buffer |-> Dump(r.data), pos |-> 0,
                                ret |-> ret]),
              file |-> <<>>]
        ELSE [proc |-> Process(r.data, [op |-> "update_pool"] @@ Raised("OSError"), Closed),
              file |-> lines]

\* the file object writes its next n lines
SaveWrites(q, lines, n) ==
    [proc |-> [q EXCEPT !.fh.pos = @ + n],
     file |-> WriteAt(lines, q.fh.pos, SubSeq(q.fh.buffer, q.fh.pos + 1, q.fh.pos + n))]

\* everything is written: the file is closed, save_db and update_pool return
SaveReturns(q, lines) ==
    [proc |-> [q EXCEPT !.fh = Closed, !.ret = q.fh.ret], file |-> lines]

\* Fault: the entry is taken back out of the log when the write fails.
SaveRaisesRollback(q, lines) ==
    [proc |-> [q EXCEPT !.fh = Closed, !.ret = [op |-> "update_pool"] @@ Raised("OSError"),
                        !.data.history = Tail(@)],
     file |-> lines]

\* a write raises OSError: the with-block closes the file and the exception
\* leaves save_db and update_pool
SaveRaises(q, lines) ==
    [proc |-> [q EXCEPT !.fh = Closed, !.ret = [op |-> "update_pool"] @@ Raised("OSError")],
     file |-> lines]

Main == Process(data, result, writer)

SetMain(s) ==
    /\ products' = s.proc.data.products
    /\ history' = s.proc.data.history
    /\ contacts' = s.proc.data.contacts
    /\ result' = s.proc.ret
    /\ writer' = s.proc.fh
    /\ file' = s.file
    /\ UNCHANGED peer

SetPeer(s) ==
    /\ peer' = s.proc
    /\ file' = s.file
    /\ UNCHANGED <<products, history, contacts, result, writer>>

\* What the forms of these specifications submit.
SessionCalls(d) ==
    {update_pool(d, p, 2, u, w, a, "Unspecified") :
        p \in DOMAIN d.products, u \in UnitNames, w \in {100, 200}, a \in ActionInputs}

(* One process and a disk that can fail. *)

Submit ==
    /\ ~writer.open
    /\ \E r \in SessionCalls(data), opened \in BOOLEAN :
         /\ Len(r.data.history) <= MaxHistory
         /\ SetMain(UpdatePoolOpens(Main, file, r, opened))

Writes ==
    /\ writer.open
    /\ \E n \in 1..(Len(writer.buffer) - writer.pos) : SetMain(SaveWrites(Main, file, n))

Returns ==
    /\ writer.open /\ writer.pos = Len(writer.buffer)
    /\ SetMain(SaveReturns(Main, file))

DiskFails ==
    /\ writer.open /\ writer.pos < Len(writer.buffer)
    /\ SetMain(SaveRaises(Main, file))

NextDisk == Submit \/ Writes \/ Returns \/ DiskFails

SpecDisk == Init /\ [][NextDisk]_vars

(* Two processes on one DB_FILE (two sessions of the web app, or two        *)
(* windows of the desktop one).  The second one starts when the file        *)
(* exists, so its Database() reads it; it may start again at any time.      *)

MaxCommits == 1

SessionSubmit ==
    /\ ~writer.open
    /\ \E r \in SessionCalls(data) :
         /\ Len(r.data.history) <= MaxCommits
         /\ SetMain(UpdatePoolOpens(Main, file, r, TRUE))

PeerLoad ==
    /\ peer.up => ~peer.fh.open
    /\ LET r == load_db(file)
       IN  peer' = Process(r.data, [op |-> "load_db"] @@ r.ret, Closed)
    /\ UNCHANGED <<products, history, contacts, file, result, writer>>

\* the second process is past its load_db and inside no call
PeerIdle == peer.up /\ ~peer.fh.open /\ ~(peer.ret.op = "load_db" /\ peer.ret.raised)

PeerSubmit ==
    /\ PeerIdle
    /\ \E r \in SessionCalls(peer.data) :
         /\ Len(r.data.history) <= MaxCommits
         /\ SetPeer(UpdatePoolOpens(peer, file, r, TRUE))

PeerWrites ==
    /\ peer.up /\ peer.fh.open
    /\ \E n \in 1..(Len(peer.fh.buffer) - peer.fh.pos) : SetPeer(SaveWrites(peer, file, n))

PeerReturns ==
    /\ peer.up /\ peer.fh.open /\ peer.fh.pos = Len(peer.fh.buffer)
    /\ SetPeer(SaveReturns(peer, file))

NextShared ==
    SessionSubmit \/ Writes \/ Returns \/ PeerLoad \/ PeerSubmit \/ PeerWrites \/ PeerReturns

SpecShared == Init /\ [][NextShared]_vars

----------------------------------------------------------------------------
(* Properties.  The arguments a property tries in every reachable state.    *)

QtyArgs == {-1, 0, 1, 2}
WeightArgs == {-50, 0, 100, 200}
UnitArgs == {"Standard Crate", "Small Box", "Red Bucket"}
ContactArgs == {"Unspecified", "Farm Supply Co", "Local Market"}

Pool(p) == products[p].pool
Units(p) == products[p].known_units

\* An update_pool call that changed nothing in memory and wrote nothing.
NoMutation(r) == r.data = data /\ ~r.saved

(* C1: the pool of every product is >= 0 in every reachable state, whatever *)
(* quantity, unit weight and action the callers passed.                     *)
C1_PoolNeverNegative == \A p \in DOMAIN products : Pool(p) >= 0

(* C2: for each product, replaying its entries oldest first from 0, adding  *)
(* weight_change for IN and subtracting it for OUT, gives the pool_after of *)
(* every entry, and after the newest entry the product's current pool.      *)
ReplayStep(pool, log) ==
    IF log.action = "IN" THEN pool + log.weight_change
    ELSE IF log.action = "OUT" THEN pool - log.weight_change
    ELSE pool

\* logs are newest first: the oldest entry is the last one
RECURSIVE Replay(_)
Replay(logs) ==
    IF logs = <<>> THEN 0 ELSE ReplayStep(Replay(Tail(logs)), Head(logs))

C2_ReplayReproducesPools ==
    \A p \in ProductNames :
        LET logs == Logs(p, history)
        IN  /\ \A i \in 1..Len(logs) :
                 Replay(SubSeq(logs, i, Len(logs))) = logs[i].pool_after
            /\ p \in DOMAIN products => Replay(logs) = Pool(p)
            /\ p \notin DOMAIN products => logs = <<>>

\* a product that was stocked and then sold from, with stock left
C2_Witness ==
    \E p \in DOMAIN products :
        LET logs == Logs(p, history)
        IN  /\ Len(logs) = 2
            /\ logs[2].action = "IN" /\ logs[1].action = "OUT"
            /\ logs[1].weight_change > 0
            /\ Pool(p) > 0

(* C3: an OUT of more than the pool is refused with "Not enough stock!" and *)
(* changes neither pool, unit catalog, history nor the file; an OUT of      *)
(* exactly the pool is accepted and leaves the pool at 0.                   *)
C3_InsufficientStockRejected ==
    \A p \in DOMAIN products, qty \in QtyArgs, u \in UnitArgs, w \in WeightArgs,
       c \in ContactArgs :
        LET r == update_pool(data, p, qty, u, w, "OUT", c)
        IN  /\ qty * w > Pool(p) =>
                /\ ~r.ret.ok /\ ~r.ret.raised
                /\ r.ret.msg.text = "Not enough stock!"
                /\ NoMutation(r)
            /\ qty * w = Pool(p) =>
                /\ r.ret.ok
                /\ r.data.products[p].pool = 0

\* the whole stock was sold (accepted, pool 0) and the next sale was refused
C3_Witness ==
    /\ result.op = "update_pool" /\ ~result.ok /\ ~result.raised
    /\ result.msg.text = "Not enough stock!"
    /\ history # <<>>
    /\ history[1].action = "OUT" /\ history[1].weight_change > 0
    /\ history[1].pool_after = 0
    /\ Pool(history[1].product) = 0
    /\ file = save_db(data)

(* C4: unit learning is last-write-wins.  Every successful update_pool      *)
(* leaves the unit it used in the catalog with the weight it was given,     *)
(* also over a different known weight, and every other unit as it was; so   *)
(* the catalog agrees with the newest entry of each unit.                   *)
ActionArgs == {"IN", "OUT", "ADJUST"}

\* the entry is the newest one of its product that used its unit
NewestOfUnit(i) ==
    \A j \in 1..(i - 1) :
        ~(/\ history[j].product = history[i].product
          /\ history[j].qty_display[2] = history[i].qty_display[2])

C4_LastWriteWins ==
    /\ \A p \in DOMAIN products, qty \in QtyArgs, u \in UnitArgs, w \in WeightArgs,
          a \in ActionArgs :
           LET r == update_pool(data, p, qty, u, w, a, "Unspecified")
               learned == r.data.products[p].known_units
           IN  r.ret.ok =>
                   /\ DOMAIN learned = DOMAIN Units(p) \cup {u}
                   /\ learned[u] = w
                   /\ \A v \in DOMAIN Units(p) \ {u} : learned[v] = Units(p)[v]
    /\ \A i \in 1..Len(history) :
           NewestOfUnit(i) =>
               LET e == history[i]
               IN  /\ e.qty_display[2] \in DOMAIN Units(e.product)
                   /\ e.weight_change = e.qty_display[1] * Units(e.product)[e.qty_display[2]]

\* two transactions of one product used one unit at two weights (the weights
\* are weight_change / qty), and the catalog holds the second one
C4_Witness ==
    /\ Len(history) = 2
    /\ history[1].product = history[2].product
    /\ history[1].qty_display[2] = history[2].qty_display[2]
    /\ history[1].qty_display[1] = 2 /\ history[2].qty_display[1] = 2
    /\ history[1].weight_change > 0 /\ history[2].weight_change > 0
    /\ history[1].weight_change # history[2].weight_change
    /\ 2 * Units(history[1].product)[history[1].qty_display[2]]
           = history[1].weight_change

(* C5: validation precedes mutation.  An update_pool with quantity <= 0,    *)
(* with a unit weight <= 0 for a unit that is not in the catalog, or for a  *)
(* product that is not in the store returns an error as a value and changes *)
(* nothing: so a step that changes memory had a quantity > 0 and taught no  *)
(* new unit a weight <= 0, no update_pool call ends in an exception, every  *)
(* catalog weight is > 0 and every entry has weight_change >= 0.            *)
C5_ValidInputsOnly ==
    /\ result'.op = "update_pool" => ~result'.raised
    /\ (result'.op = "update_pool" /\ history' # history) =>
           LET e == history'[1]
               u == e.qty_display[2]
           IN  /\ e.qty_display[1] > 0
               /\ u \notin DOMAIN Units(e.product) =>
                      products'[e.product].known_units[u] > 0
    /\ \A p \in DOMAIN products' :
           \A u \in DOMAIN products'[p].known_units :
               products'[p].known_units[u] > 0
    /\ \A i \in 1..Len(history') : history'[i].weight_change >= 0

C5_ValidationPrecedesMutation == [][C5_ValidInputsOnly]_vars

(* C6: add_product with a name that is in the store returns "Product        *)
(* already exists!" and changes nothing: the product keeps its category,    *)
(* icon, pool and catalog with the learned units, the log gets no entry     *)
(* and nothing is written.                                                  *)
C6_DuplicateProductRejected ==
    \A name \in DOMAIN products, category \in Categories :
        LET r == add_product(data, name, category)
        IN  /\ r.ret = Returned(FALSE, "Product already exists!")
            /\ NoMutation(r)

\* the only product, stocked in a learned unit, was added again
C6_Witness ==
    /\ result.op = "add_product" /\ result.msg = "Product already exists!"
    /\ DOMAIN products = {"Heirloom Tomato"}
    /\ products["Heirloom Tomato"].category = "Vegetable"
    /\ "Red Bucket" \in DOMAIN Units("Heirloom Tomato")
    /\ Pool("Heirloom Tomato") > 0
    /\ history # <<>>

(* C7: a successful add_product creates the product with pool 0, the icon   *)
(* of its category (Fruit, Vegetable, Dairy, Meat, anything else: the box)  *)
(* and the catalog Standard Crate = 20.0, Small Box = 10.0, and leaves the  *)
(* history alone; the first IN of q units of weight w on it gives pool      *)
(* q * w and one entry of the product, weight_change = pool_after = q * w.  *)
CategoryTable(category) ==
    CASE category = "Fruit" -> "apple"
      [] category = "Vegetable" -> "broccoli"
      [] category = "Dairy" -> "milk"
      [] category = "Meat" -> "steak"
      [] OTHER -> "box"

C7_NewProductAndFirstDelivery ==
    /\ \A name \in ProductNames \ DOMAIN products, category \in Categories :
           LET r == add_product(data, name, category)
           IN  /\ r.ret.ok /\ r.saved
               /\ DOMAIN r.data.products = DOMAIN products \cup {name}
               /\ r.data.products[name] =
                      [category |-> category, icon |-> CategoryTable(category),
                       pool |-> 0,
                       known_units |-> [u \in {"Standard Crate", "Small Box"} |->
                                           IF u = "Standard Crate" THEN 200 ELSE 100]]
               /\ \A p \in DOMAIN products : r.data.products[p] = products[p]
               /\ r.data.history = history
    /\ \A p \in DOMAIN products, qty \in QtyArgs, u \in UnitArgs, w \in WeightArgs,
          c \in ContactArgs :
           Logs(p, history) = <<>> =>
               LET r == update_pool(data, p, qty, u, w, "IN", c)
                   logs == Logs(p, r.data.history)
               IN  /\ Pool(p) = 0
                   /\ r.ret.ok
                   /\ r.data.products[p].pool = qty * w
                   /\ Len(logs) = 1
                   /\ logs[1].weight_change = qty * w
                   /\ logs[1].pool_after = qty * w

\* addProduct("Tomato", "Vegetable"), then 2 Standard Crates of 20.0 come IN
C7_Witness ==
    /\ "Tomato" \in DOMAIN products
    /\ products["Tomato"].category = "Vegetable"
    /\ products["Tomato"].icon = "broccoli"
    /\ Pool("Tomato") = 400
    /\ Logs("Tomato", history) =
           <<[product |-> "Tomato", action |-> "IN",
              qty_display |-> <<2, "Standard Crate">>, weight_change |-> 400,
              pool_after |-> 400, contact |-> "Unspecified"]>>

(* C8: with balanceGap = (totalOut + currentStock) - totalIn over the       *)
(* product's entries and its live pool, the figure's "Initial / Unknown"    *)
(* inflow is what the IN entries of that name sum to plus balanceGap when   *)
(* balanceGap > 0.1, and the inflows are the plain sums per contact when    *)
(* balanceGap <= 0.1, negative gaps included.                               *)
Min(S) == CHOOSE x \in S : \A y \in S : x <= y

RECURSIVE WeightSum(_, _, _)
WeightSum(logs, action, who) ==
    IF logs = <<>> THEN 0
    ELSE LET log == Head(logs)
         IN  WeightSum(Tail(logs), action, who)
                + (IF log.action = action /\ LogContact(log) \in who
                   THEN log.weight_change ELSE 0)

Everyone == LoadedContacts \cup ContactArgs

ContactsOf(logs, action) ==
    {LogContact(logs[i]) : i \in {j \in 1..Len(logs) : logs[j].action = action}}

Drawn == result.op = "render_supply_chain_sankey" /\ "fig" \in DOMAIN result

FarmAt(fig) == Min({i \in 1..Len(fig.label) : fig.label[i] = "MangoClub Farm"})

\* the edges into the farm, as <<vendor label, weight>>
Inflows(fig) == {<<fig.label[i], fig.value[i]>> : i \in 1..(FarmAt(fig) - 1)}

C8_BalanceGapInjection ==
    Drawn =>
        LET fig == result.fig
            logs == Logs(fig.title, history)
            gap == (WeightSum(logs, "OUT", Everyone) + Pool(fig.title))
                       - WeightSum(logs, "IN", Everyone)
            plain == {<<k, WeightSum(logs, "IN", {k})>> : k \in ContactsOf(logs, "IN")}
            unknown == "Initial / Unknown"
        IN  /\ Cardinality(Inflows(fig)) = FarmAt(fig) - 1
            /\ \A i \in 1..(FarmAt(fig) - 1) :
                   fig.source[i] = i - 1 /\ fig.target[i] = FarmAt(fig) - 1
            /\ gap > 1 =>
                   Inflows(fig) =
                       {b \in plain : b[1] # unknown}
                           \cup {<<unknown, WeightSum(logs, "IN", {unknown}) + gap>>}
            /\ gap <= 1 => Inflows(fig) = plain

\* pool 50, one IN of 30 from VendorA, one OUT of 10 to CustomerB: 30 injected
C8_Witness ==
    /\ Drawn
    /\ result.fig.title = "Tomato"
    /\ Pool("Tomato") = 500
    /\ Len(history) = 2
    /\ \E i, j \in 1..2 :
         /\ history[i].product = "Tomato" /\ history[i].action = "IN"
         /\ history[i].weight_change = 300 /\ LogContact(history[i]) = "VendorA"
         /\ "contact" \in DOMAIN history[i]
         /\ history[j].product = "Tomato" /\ history[j].action = "OUT"
         /\ history[j].weight_change = 100 /\ LogContact(history[j]) = "CustomerB"
    /\ Inflows(result.fig) = {<<"VendorA", 300>>, <<"Initial / Unknown", 300>>}

(* C9: render_supply_chain_sankey is deterministic and read-only.  A call   *)
(* changes neither products, history, contacts nor the file; a second call  *)
(* for the same product gives the same figure; and the labels are the IN    *)
(* contacts in first-seen order (newest entry first; "Initial / Unknown"    *)
(* after them when it is injected as a new bucket), the farm, the OUT       *)
(* contacts in first-seen order, and the stock.                             *)
FirstAt(logs, action, k) ==
    Min({i \in 1..Len(logs) : logs[i].action = action /\ LogContact(logs[i]) = k})

\* the contacts of the action, each at the rank of its first entry
FirstSeen(logs, action) ==
    LET K == ContactsOf(logs, action)
    IN  [n \in 1..Cardinality(K) |->
            CHOOSE k \in K :
                Cardinality({o \in K : FirstAt(logs, action, o) < FirstAt(logs, action, k)})
                    = n - 1]

C9_Labels(fig) ==
    LET logs == Logs(fig.title, history')
        gap == (WeightSum(logs, "OUT", Everyone) + products'[fig.title].pool)
                   - WeightSum(logs, "IN", Everyone)
        injected == gap > 1 /\ "Initial / Unknown" \notin ContactsOf(logs, "IN")
    IN  fig.label =
            FirstSeen(logs, "IN") \o (IF injected THEN <<"Initial / Unknown">> ELSE <<>>)
                \o <<"MangoClub Farm">> \o FirstSeen(logs, "OUT") \o <<"Current Stock">>

C9_Step ==
    result'.op = "render_supply_chain_sankey" =>
        /\ UNCHANGED <<products, history, contacts, file>>
        /\ (Drawn /\ "fig" \in DOMAIN result' /\ result'.fig.title = result.fig.title)
               => result' = result
        /\ "fig" \in DOMAIN result' => C9_Labels(result'.fig)

C9_DeterministicReadOnly == [][C9_Step]_vars

\* a figure of a product whose newest and oldest IN entries share a contact
\* and whose middle one has another: two vendor labels, the shared one first
C9_Witness ==
    /\ Drawn
    /\ LET logs == Logs(result.fig.title, history)
       IN  /\ Len(logs) = 3
           /\ \A i \in 1..3 : logs[i].action = "IN"
           /\ LogContact(logs[1]) = LogContact(logs[3])
           /\ LogContact(logs[1]) # LogContact(logs[2])
           /\ LogContact(logs[1]) = "VendorA"
           /\ result.fig.label[1] = "VendorA"
           /\ result.fig.label[2] = LogContact(logs[2])
           /\ result.fig.label[3] = "MangoClub Farm"

(* C10: the history is append-only and newest first.  A successful          *)
(* update_pool puts exactly one entry at the head, of the product, action,  *)
(* quantity, unit and contact it was called with, and every older entry     *)
(* keeps its fields and its place, also when the call overwrites the weight *)
(* of a unit they used; every other step leaves the log as it was.          *)
Committed == result'.op = "update_pool" /\ result'.ok

C10_Step ==
    /\ Committed =>
           /\ Len(history') = Len(history) + 1
           /\ Tail(history') = history
           /\ history'[1].pool_after = products'[history'[1].product].pool
    /\ ~Committed => history' = history

C10_HistoryAppendOnly == [][C10_Step]_vars

\* the newer of two entries of one product and unit changed the unit's
\* weight: the older entry still shows the weight_change it was logged with
C10_Witness ==
    /\ Len(history) = 2
    /\ history[1].product = history[2].product
    /\ history[1].qty_display[2] = history[2].qty_display[2]
    /\ history[2].qty_display = <<2, "Red Bucket">>
    /\ history[2].weight_change = 200
    /\ history[2].contact = "Farm Supply Co"
    /\ Units(history[2].product)["Red Bucket"] = 200

(* C11: save_db appears atomic to a reader.  A load_db of another process   *)
(* that runs while a save_db is between its open() and its return reads a   *)
(* whole document, the one before the save or the new one: the file is one *)
(* whole document at that moment and json.load does not fail on it.         *)
LoadStep == peer'.up /\ peer' # peer /\ peer'.ret.op = "load_db" /\ ~peer'.fh.open

C11_Step ==
    (LoadStep /\ writer.open) =>
        /\ ~peer'.ret.raised
        /\ WellFormed(file)

C11_SaveAppearsAtomic == [][C11_Step]_vars

(* C12: a failed write does not undo the transaction.  When save_db raises  *)
(* OSError in an update_pool that passed its checks, the new entry is at    *)
(* the head of the log, the pool is the entry's pool_after and the unit is  *)
(* in the catalog with the entry's weight, in memory, and the call ends in  *)
(* the exception, which no refused transaction does; when update_pool       *)
(* returns success the file is the dump of the memory, and no success is    *)
(* reported while the write is under way.                                   *)
PersistenceFailure(ret) == ret.op = "update_pool" /\ ret.raised /\ ret.msg = "OSError"

\* the newest entry is in memory with its pool and its unit
CommittedInMemory(prods, hist) ==
    /\ hist # <<>>
    /\ LET e == hist[1]
       IN  /\ prods[e.product].pool = e.pool_after
           /\ e.qty_display[2] \in DOMAIN prods[e.product].known_units
           /\ e.qty_display[1] * prods[e.product].known_units[e.qty_display[2]]
                  = e.weight_change

C12_Step ==
    LET openFails == ~writer.open /\ ~writer'.open /\ history' # history
        writeFails == writer.open /\ ~writer'.open /\ result'.raised
        succeeds == writer.open /\ ~writer'.open /\ ~result'.raised
        refused == ~writer.open /\ ~writer'.open /\ history' = history
    IN  /\ openFails =>
               /\ PersistenceFailure(result')
               /\ Tail(history') = history
               /\ CommittedInMemory(products', history')
               /\ Pool(history'[1].product) # history'[1].pool_after
               /\ file' = file
        /\ writeFails =>
               /\ PersistenceFailure(result')
               /\ UNCHANGED <<products, history, contacts>>
               /\ CommittedInMemory(products', history')
               /\ data = Parse(writer.buffer)
        /\ refused => (~result'.ok /\ ~PersistenceFailure(result') /\ ~result'.raised)
        /\ succeeds =>
               /\ result'.op = "update_pool" /\ result'.ok
               /\ file' = Dump(data') /\ load_db(file').data = data'
               /\ UNCHANGED <<products, history, contacts>>
        /\ writer'.open => result' = result

C12_PersistenceFailureKeepsCommit == [][C12_Step]_vars

\* a second delivery whose write failed half way: both entries are in
\* memory, the file is cut short
C12_Witness ==
    /\ PersistenceFailure(result)
    /\ ~writer.open
    /\ Len(history) = 2
    /\ history[1].action = "IN" /\ history[1].pool_after = Pool(history[1].product)
    /\ Pool(history[1].product) > history[2].pool_after
    /\ file # <<>> /\ ~WellFormed(file)

(* C13: every refusal for lack of stock carries both amounts: the message   *)
(* of an update_pool that refuses an OUT, of the web program and of the     *)
(* desktop one, has the required weight (quantity x unit weight) and the    *)
(* available weight (the product's pool at the call).                       *)
CarriesAmounts(ret, required, available) ==
    /\ "need" \in DOMAIN ret.msg /\ ret.msg.need = required
    /\ "have" \in DOMAIN ret.msg /\ ret.msg.have = available

C13_StockErrorCarriesAmounts ==
    \A p \in DOMAIN products, qty \in QtyArgs, u \in UnitArgs, w \in WeightArgs :
        LET web == update_pool(data, p, qty, u, w, "OUT", "Unspecified")
            desktop == desktop_update_pool(data, p, qty, u, w, "OUT")
        IN  /\ (~desktop.ret.ok /\ ~desktop.ret.raised)
                   => CarriesAmounts(desktop.ret, qty * w, Pool(p))
            /\ (~web.ret.ok /\ ~web.ret.raised)
                   => CarriesAmounts(web.ret, qty * w, Pool(p))

(* C14: the shape of the figure.  For a product with entries the labels are *)
(* the IN buckets, the farm, the OUT buckets and the stock, |IN| + |OUT| +  *)
(* 2 of them; link i goes from IN bucket i to the farm with the bucket's    *)
(* amount, the next |OUT| links go from the farm to each OUT bucket with    *)
(* the sum of its entries, and one more link goes from the farm to the      *)
(* stock with the pool exactly when the pool is > 0.  A product without     *)
(* entries gets the "Not enough data" notice and no figure.                 *)
\* As claimed: the IN buckets are the contacts in first-seen order, with
\* "Initial / Unknown" the last of them whenever the gap is injected.
\* As the code does it: "Initial / Unknown" comes last when the injection
\* makes the bucket; when IN entries of a contact of that name made it, it
\* stays at its first-seen place and the gap is added to its sum.
Without(seq, k) == SelectSeq(seq, LAMBDA x : x # k)

GapOf(product_name) ==
    LET logs == Logs(product_name, history)
    IN  (WeightSum(logs, "OUT", Everyone) + Pool(product_name))
            - WeightSum(logs, "IN", Everyone)

C14_Shape(fig, inKeys) ==
    LET logs == Logs(fig.title, history)
        outKeys == FirstSeen(logs, "OUT")
        nIn == Len(inKeys)
        nOut == Len(outKeys)
        stock == Pool(fig.title)
        nLinks == nIn + nOut + (IF stock > 0 THEN 1 ELSE 0)
        Bucket(k) == WeightSum(logs, "IN", {k})
                        + (IF k = "Initial / Unknown" /\ GapOf(fig.title) > 1
                           THEN GapOf(fig.title) ELSE 0)
    IN  /\ logs # <<>>
        /\ fig.label = inKeys \o <<"MangoClub Farm">> \o outKeys \o <<"Current Stock">>
        /\ Len(fig.label) = nIn + nOut + 2
        /\ fig.stock_label = stock
        /\ Len(fig.source) = nLinks /\ Len(fig.target) = nLinks /\ Len(fig.value) = nLinks
        /\ \A i \in 1..nIn :
               /\ fig.source[i] = i - 1 /\ fig.target[i] = nIn
               /\ fig.value[i] = Bucket(inKeys[i])
        /\ \A j \in 1..nOut :
               /\ fig.source[nIn + j] = nIn /\ fig.target[nIn + j] = nIn + j
               /\ fig.value[nIn + j] = WeightSum(logs, "OUT", {outKeys[j]})
        /\ stock > 0 =>
               /\ fig.source[nLinks] = nIn /\ fig.target[nLinks] = nIn + nOut + 1
               /\ fig.value[nLinks] = stock

C14_NoData ==
    (result.op = "render_supply_chain_sankey" /\ ~Drawn) =>
        Logs(result.product, history) = <<>>

\* the claim as it stands
C14_UnknownAlwaysLast ==
    /\ C14_NoData
    /\ Drawn =>
           LET seen == FirstSeen(Logs(result.fig.title, history), "IN")
           IN  C14_Shape(result.fig,
                         IF GapOf(result.fig.title) > 1
                         THEN Without(seen, "Initial / Unknown") \o <<"Initial / Unknown">>
                         ELSE seen)

\* the claim as amended
C14_FlowGraphShape ==
    /\ C14_NoData
    /\ Drawn =>
           LET logs == Logs(result.fig.title, history)
               seen == FirstSeen(logs, "IN")
           IN  C14_Shape(result.fig,
                         IF GapOf(result.fig.title) > 1
                                /\ "Initial / Unknown" \notin ContactsOf(logs, "IN")
                         THEN seen \o <<"Initial / Unknown">>
                         ELSE seen)

\* two vendors, a gap made into a new bucket after them, a customer, stock
C14_Witness ==
    /\ Drawn
    /\ result.fig.label = <<"CustomerB", "VendorA", "Initial / Unknown", "MangoClub Farm",
                            "CustomerB", "Current Stock">>
    /\ result.fig.source = <<0, 1, 2, 3, 3>>
    /\ result.fig.target = <<3, 3, 3, 4, 5>>

(* C15: the figure is balanced at the farm.  The weights of the links into  *)
(* the farm node and the weights of the links out of it, the one to the     *)
(* stock included, add up to the same within 0.1, whatever the entries and  *)
(* the pool.                                                                *)
RECURSIVE SumOver(_, _)
SumOver(f, S) ==
    IF S = {} THEN 0
    ELSE LET i == CHOOSE x \in S : TRUE IN f[i] + SumOver(f, S \ {i})

Links(fig) == 1..Len(fig.value)
IntoFarm(fig) == SumOver(fig.value, {i \in Links(fig) : fig.target[i] = FarmAt(fig) - 1})
OutOfFarm(fig) == SumOver(fig.value, {i \in Links(fig) : fig.source[i] = FarmAt(fig) - 1})
ToCustomers(fig) ==
    SumOver(fig.value, {i \in Links(fig) : /\ fig.source[i] = FarmAt(fig) - 1
                                            /\ fig.target[i] # Len(fig.label) - 1})

Within(a, b, tolerance) == a - b <= tolerance /\ b - a <= tolerance

\* the claim as it stands
C15_BalancedAtFarm ==
    Drawn => Within(IntoFarm(result.fig), OutOfFarm(result.fig), 1)

\* The claim as amended: when the gap is not below -0.1, what goes into the
\* farm is what goes to the customers plus the pool, within 0.1, and that is
\* all that leaves the farm when the pool is not negative (the stock link is
\* drawn for a pool > 0 only); when the gap is below -0.1 nothing is
\* injected and the links into the farm carry more than that, by the gap.
C15_BalancedUpToStock ==
    Drawn =>
        LET fig == result.fig
            gap == GapOf(fig.title)
            stock == Pool(fig.title)
        IN  /\ gap >= -1 => Within(IntoFarm(fig), ToCustomers(fig) + stock, 1)
            /\ (gap >= -1 /\ stock >= 0) => Within(IntoFarm(fig), OutOfFarm(fig), 1)
            /\ gap < -1 => IntoFarm(fig) = ToCustomers(fig) + stock - gap

\* stock of 50 with one delivery of 30 and one sale of 30 on record: the
\* injected 50 makes 80 in, 30 + 50 out
C15_Witness ==
    /\ Drawn
    /\ Pool(result.fig.title) = 500
    /\ GapOf(result.fig.title) = 500
    /\ IntoFarm(result.fig) = 800
    /\ OutOfFarm(result.fig) = 800
    /\ ToCustomers(result.fig) = 300

(* C16: last writer wins.  When two processes that loaded the same snapshot *)
(* have each committed one transaction and both update_pool calls have      *)
(* returned, the file is the dump of the memory of one of them (the one     *)
(* that saved last) and has that process's entry only: the pool, unit and   *)
(* entry of the other one are not in it.                                    *)
BothCommitted ==
    /\ ~writer.open /\ PeerIdle
    /\ result.op = "update_pool" /\ result.ok /\ Len(history) = 1
    /\ peer.ret.op = "update_pool" /\ peer.ret.ok /\ Len(peer.data.history) = 1

C16_LastWriterWins ==
    BothCommitted =>
        /\ file = Dump(data) \/ file = Dump(peer.data)
        /\ load_db(file).data \in {data, peer.data}

(* C17: ledger conservation.  After every step of a store that began with  *)
(* the demo product and no entries and saw add_product, add_contact and IN  *)
(* and OUT transactions only, each product's pool is the sum of the         *)
(* weight_change of its IN entries minus that of its OUT entries, so the    *)
(* supply chain figure of it has a gap of 0 and no "Initial / Unknown"      *)
(* bucket; and a transaction of one product leaves the pool, the catalog    *)
(* and the entries of every other product as they were.                     *)
C17_Conserved(prods, hist) ==
    \A p \in DOMAIN prods :
        LET logs == Logs(p, hist)
            stock == prods[p].pool
        IN  /\ stock = WeightSum(logs, "IN", Everyone) - WeightSum(logs, "OUT", Everyone)
            /\ BalanceGap(Total(logs, "IN"), Total(logs, "OUT"), stock) = 0
            /\ InFlows(logs, stock) = Flows(logs, "IN")
            /\ logs # <<>> =>
                   LET fig == SankeyFigure(p, prods[p], logs)
                   IN  \A i \in 1..Len(fig.label) : fig.label[i] # "Initial / Unknown"

C17_Step ==
    /\ C17_Conserved(products', history')
    /\ history' # history =>
           \A q \in DOMAIN products \ {history'[1].product} :
               /\ products'[q] = products[q]
               /\ Logs(q, history') = Logs(q, history)

C17_LedgerConservation == [][C17_Step]_vars

\* two products with an entry each: the delivery of the second one left the
\* pool and the entry of the first one alone
C17_Witness ==
    /\ Len(history) = 2
    /\ DOMAIN products = {"Heirloom Tomato", "Tomato"}
    /\ result.op = "update_pool" /\ result.ok
    /\ history[2].product = "Tomato" /\ history[2].action = "IN"
    /\ history[1].product = "Heirloom Tomato" /\ history[1].action = "IN"
    /\ Pool("Tomato") = history[2].weight_change
    /\ Pool("Heirloom Tomato") = history[1].weight_change
    /\ Pool("Tomato") > 0 /\ Pool("Heirloom Tomato") > Pool("Tomato")

====
